---- MODULE Spec2Model ----
(***************************************************************************)
(* Model of the SpecifiedDefault derive macro (src/src/lib.rs).            *)
(*                                                                         *)
(* One declaration is handed to the macro (specify_defaults), which either *)
(* panics (a compile-time diagnostic) or returns the tokens of             *)
(* `impl Default for Name`.  The emitted `default()` is then run; it       *)
(* parses the override literals with the element types' FromStr and       *)
(* either returns a value or panics through `expect`.                      *)
(***************************************************************************)
EXTENDS Naturals, Sequences, FiniteSets

VARIABLES ast, pc, gen, value

vars == <<ast, pc, gen, value>>

(* ------------------------------ bounds --------------------------------- *)

\* most fields of a struct
MaxFields == 2
\* most variants of an enum
MaxVariants == 3
\* most attributes attached to the fields/variants of one declaration
MaxAttrs == 2

(* ------------------------------ inputs --------------------------------- *)

ATTRIBUTE_NAME == "default"

\* the texts of the string literals that appear in attributes
Literals == {"640", "abc", ""}

NoLit == [tag |-> "None", value |-> ""]

StrLit(s) == [tag |-> "Str", value |-> s]

IntLit(s) == [tag |-> "Int", value |-> s]

\* syn::MetaItem: Word(name) | List(name, ..) | NameValue(name, lit)
Word(n) == [tag |-> "Word", name |-> n, lit |-> NoLit]

List(n) == [tag |-> "List", name |-> n, lit |-> NoLit]

NameValue(n, l) == [tag |-> "NameValue", name |-> n, lit |-> l]

\* the attributes a field or a variant may carry:
\*   #[default]  #[default(..)]  #[default = "<lit>"]  #[default = 5]  #[doc = "abc"]
Attrs ==
    {Word(ATTRIBUTE_NAME), List(ATTRIBUTE_NAME), NameValue(ATTRIBUTE_NAME, IntLit("5")),
     NameValue("doc", StrLit("abc"))}
    \cup {NameValue(ATTRIBUTE_NAME, StrLit(l)) : l \in Literals}

Types == {"u32", "String"}

FieldIdents == <<"width", "height", "scenes", "title">>

VariantIdents == <<"Foo", "Bar", "Baz", "Qux", "Quux">>

NoIdent == ""

NthIdent(pool, i) == pool[((i - 1) % Len(pool)) + 1]

RECURSIVE Sum(_, _)
\* s[1] + .. + s[i]
Sum(s, i) == IF i = 0 THEN 0 ELSE s[i] + Sum(s, i - 1)

\* how many attributes each of k fields or variants carries: at most MaxAttrs in all
Shapes(k) == {s \in [1..k -> 0..MaxAttrs] : Sum(s, k) <= MaxAttrs}

\* the attributes of the i-th field or variant, the declaration's attributes
\* being flat in source order and s giving how many each item carries
AttrsOf(flat, s, i) == SubSeq(flat, Sum(s, i - 1) + 1, Sum(s, i))

\* syn::Body: Struct(VariantData::Struct | Tuple | Unit) | Enum
StructBody(fs) == [tag |-> "Struct", fields |-> fs, variants |-> <<>>]

TupleBody(fs) == [tag |-> "Tuple", fields |-> fs, variants |-> <<>>]

UnitBody == [tag |-> "Unit", fields |-> <<>>, variants |-> <<>>]

EnumBody(vs) == [tag |-> "Enum", fields |-> <<>>, variants |-> vs]

\* syn::DeriveInput
DeriveInput(b) == [ident |-> "MyType", body |-> b]

\* struct MyType { #[..] width: T1, #[..] height: T2, .. }
NamedStruct(tys, s, flat) ==
    DeriveInput(StructBody([i \in 1..Len(tys) |->
        [ident |-> NthIdent(FieldIdents, i), ty |-> tys[i], attrs |-> AttrsOf(flat, s, i)]]))

\* struct MyType(T1, T2, ..);
TupleStruct(tys) ==
    DeriveInput(TupleBody([i \in 1..Len(tys) |-> [ident |-> NoIdent, ty |-> tys[i], attrs |-> <<>>]]))

\* struct MyType;
UnitStruct == DeriveInput(UnitBody)

\* enum MyType { #[..] Foo, #[..] Bar, .. }
Enum(k, s, flat) ==
    DeriveInput(EnumBody([i \in 1..k |->
        [ident |-> NthIdent(VariantIdents, i), attrs |-> AttrsOf(flat, s, i)]]))

(* ------------------- conversions of the emitted code ------------------- *)

\* the characters of a literal's text
Chars(s) ==
    CASE s = "640" -> <<"6", "4", "0">>
      [] s = "abc" -> <<"a", "b", "c">>
      [] s = "5" -> <<"5">>
      [] OTHER -> <<>>

Digits == {"0", "1", "2", "3", "4", "5", "6", "7", "8", "9"}

\* char::to_digit(10)
DigitVal(c) ==
    CASE c = "1" -> 1 [] c = "2" -> 2 [] c = "3" -> 3 [] c = "4" -> 4 [] c = "5" -> 5
      [] c = "6" -> 6 [] c = "7" -> 7 [] c = "8" -> 8 [] c = "9" -> 9 [] OTHER -> 0

Ok(t, n, s) == [ok |-> TRUE, ty |-> t, n |-> n, s |-> s, err |-> ""]

Err(t, e) == [ok |-> FALSE, ty |-> t, n |-> 0, s |-> "", err |-> e]

RECURSIVE FromDigits(_, _, _)
\* the digit loop of <u32 as FromStr>::from_str, from position i with the
\* accumulated result acc (the literals here are too short to overflow)
FromDigits(cs, i, acc) ==
    IF i > Len(cs) THEN Ok("u32", acc, "")
    ELSE IF cs[i] \notin Digits THEN Err("u32", "InvalidDigit")
    ELSE FromDigits(cs, i + 1, acc * 10 + DigitVal(cs[i]))

\* <u32 as FromStr>::from_str
ParseU32(s) ==
    IF Len(Chars(s)) = 0 THEN Err("u32", "Empty") ELSE FromDigits(Chars(s), 1, 0)

\* <String as FromStr>::from_str never fails
ParseString(s) == Ok("String", 0, s)

\* str::parse::<T>() for the field's element type T
Parse(t, s) == IF t = "u32" THEN ParseU32(s) ELSE ParseString(s)

\* <T as Default>::default()
TypeDefault(t) == IF t = "u32" THEN Ok("u32", 0, "") ELSE Ok("String", 0, "")

(* --------------------------- the generator ----------------------------- *)

MsgStringLiteral == "#[derive(SpecifiedDefault)] only supports string literal attributes"

MsgNamedValue == "#[derive(SpecifiedDefault)] only supports named value attributes"

MsgNoVariant == "#[derive(SpecifiedDefault) requires an enum variant is attributed with 'default']"

MsgOtherStruct == "#[derive(SpecifiedDefault)] does not support other struct variants"

\* the outcome of quoting one field: an entry `ident: expr` or a panic
EntryParse(id, l) == [kind |-> "parse", ident |-> id, lit |-> l, msg |-> ""]

EntryDefault(id) == [kind |-> "default", ident |-> id, lit |-> "", msg |-> ""]

EntryPanic(m) == [kind |-> "panic", ident |-> NoIdent, lit |-> "", msg |-> m]

RECURSIVE FindFrom(_, _)
\* Iterator::find from position i: the index of the first attribute named
\* ATTRIBUTE_NAME, 0 for None
FindFrom(attrs, i) ==
    IF i > Len(attrs) THEN 0
    ELSE IF attrs[i].name = ATTRIBUTE_NAME THEN i
    ELSE FindFrom(attrs, i + 1)

\* a faulty variant of FindDefaultAttr: the name is not compared
FindFirstAttr(attrs) == IF Len(attrs) > 0 THEN 1 ELSE 0

FindDefaultAttr(attrs) == FindFrom(attrs, 1)

\* a faulty variant of FieldEntry: the literal is converted while generating
FieldEntryChecked(field) ==
    LET at == FindDefaultAttr(field.attrs) IN
    IF at = 0 THEN EntryDefault(field.ident)
    ELSE IF field.attrs[at].tag # "NameValue" THEN EntryPanic(MsgNamedValue)
    ELSE IF field.attrs[at].lit.tag # "Str" THEN EntryPanic(MsgStringLiteral)
    ELSE IF ~Parse(field.ty, field.attrs[at].lit.value).ok
         THEN EntryPanic(MsgStringLiteral)
    ELSE EntryParse(field.ident, field.attrs[at].lit.value)

\* the closure mapped over the fields
FieldEntry(field) ==
    LET at == FindDefaultAttr(field.attrs) IN
    IF at = 0 THEN EntryDefault(field.ident)
    ELSE IF field.attrs[at].tag = "NameValue"
         THEN IF field.attrs[at].lit.tag = "Str"
              THEN EntryParse(field.ident, field.attrs[at].lit.value)
              ELSE EntryPanic(MsgStringLiteral)
         ELSE EntryPanic(MsgNamedValue)

\* the result of the macro: tokens of an impl, or a panic
Tokens(item, n, es, v) ==
    [kind |-> "tokens", item |-> item, name |-> n, fields |-> es, variant |-> v, msg |-> ""]

Panic(m) ==
    [kind |-> "panic", item |-> "", name |-> "", fields |-> <<>>, variant |-> NoIdent, msg |-> m]

NoGen ==
    [kind |-> "none", item |-> "", name |-> "", fields |-> <<>>, variant |-> NoIdent, msg |-> ""]

RECURSIVE FirstPanic(_, _)
\* the first entry from position i that is a panic, 0 if none: map() runs the
\* closure on the fields in order and the first panic unwinds
FirstPanic(es, i) ==
    IF i > Len(es) THEN 0
    ELSE IF es[i].kind = "panic" THEN i
    ELSE FirstPanic(es, i + 1)

\* the Body::Struct(VariantData::Struct(fields)) arm
StructImpl(name, fields) ==
    LET es == [i \in 1..Len(fields) |-> FieldEntry(fields[i])]
        p == FirstPanic(es, 1)
    IN IF p # 0 THEN Panic(es[p].msg) ELSE Tokens("struct", name, es, NoIdent)

\* a faulty variant of IsMarked: only the bare marker counts
IsMarkedWord(variant) ==
    \E j \in 1..Len(variant.attrs) :
        variant.attrs[j].name = ATTRIBUTE_NAME /\ variant.attrs[j].tag = "Word"

\* the inner find(..).is_some() on a variant's attributes
IsMarked(variant) == FindFrom(variant.attrs, 1) # 0

RECURSIVE FindVariantFrom(_, _)
\* the outer find from position i: the index of the first marked variant, 0 for None
FindVariantFrom(variants, i) ==
    IF i > Len(variants) THEN 0
    ELSE IF IsMarked(variants[i]) THEN i
    ELSE FindVariantFrom(variants, i + 1)

\* a faulty variant of FindDefaultVariant: the first variant whenever one is marked
FindHeadVariant(variants) == IF FindVariantFrom(variants, 1) # 0 THEN 1 ELSE 0

FindDefaultVariant(variants) == FindVariantFrom(variants, 1)

\* a faulty variant of EnumImpl: unwrap_or the first variant instead of expect
EnumImplOrFirst(name, variants) ==
    LET d == FindDefaultVariant(variants) IN
    IF d # 0 THEN Tokens("enum", name, <<>>, variants[d].ident)
    ELSE IF Len(variants) > 0 THEN Tokens("enum", name, <<>>, variants[1].ident)
    ELSE Panic(MsgNoVariant)

\* the Body::Enum(variants) arm
EnumImpl(name, variants) ==
    LET d == FindDefaultVariant(variants) IN
    IF d = 0 THEN Panic(MsgNoVariant) ELSE Tokens("enum", name, <<>>, variants[d].ident)

\* a faulty variant of impl_specified_defaults: every struct body is taken as a field list
impl_every_struct(d) ==
    IF d.body.tag = "Enum" THEN EnumImpl(d.ident, d.body.variants)
    ELSE StructImpl(d.ident, d.body.fields)

impl_specified_defaults(d) ==
    CASE d.body.tag = "Struct" -> StructImpl(d.ident, d.body.fields)
      [] d.body.tag = "Enum" -> EnumImpl(d.ident, d.body.variants)
      [] OTHER -> Panic(MsgOtherStruct)

(* ------------------------- the emitted default() ------------------------ *)

NoValue == [kind |-> "none", fields |-> <<>>, variant |-> NoIdent, msg |-> <<>>]

StructValue(fs) == [kind |-> "value", fields |-> fs, variant |-> NoIdent, msg |-> <<>>]

EnumValue(v) == [kind |-> "value", fields |-> <<>>, variant |-> v, msg |-> <<>>]

\* the payload of Result::expect's panic: "<msg>: <error>"
ExpectPanic(m, e) == [kind |-> "panic", fields |-> <<>>, variant |-> NoIdent, msg |-> m \o <<": ", e>>]

\* format!("Failed to parse {}", #value)
FailedToParse(l) == <<"Failed to parse ", l>>

\* a faulty variant of EvalEntry: unwrap_or_default instead of expect
EvalEntryOrDefault(entry, t) ==
    IF entry.kind = "parse" /\ Parse(t, entry.lit).ok THEN Parse(t, entry.lit)
    ELSE TypeDefault(t)

\* one entry of the emitted constructor, for a field of element type t:
\* `#value.parse().expect(..)` or `Default::default()`
EvalEntry(entry, t) ==
    IF entry.kind = "parse" THEN Parse(t, entry.lit) ELSE TypeDefault(t)

RECURSIVE FirstErr(_, _)
\* the first entry from position i whose conversion failed, 0 if none
FirstErr(rs, i) ==
    IF i > Len(rs) THEN 0
    ELSE IF ~rs[i].ok THEN i
    ELSE FirstErr(rs, i + 1)

\* running the emitted `fn default() -> Name` against the declared field types
RunDefault(g, d) ==
    IF g.item = "enum" THEN EnumValue(g.variant)
    ELSE LET rs == [i \in 1..Len(g.fields) |-> EvalEntry(g.fields[i], d.body.fields[i].ty)]
             e == FirstErr(rs, 1)
         IN IF e # 0 THEN ExpectPanic(FailedToParse(g.fields[e].lit), rs[e].err)
            ELSE StructValue([i \in 1..Len(rs) |-> [ident |-> g.fields[i].ident, val |-> rs[i]]])

(* ----------------------------- behaviour -------------------------------- *)

Init ==
    /\ \/ \E k \in 0..MaxFields : \E s \in Shapes(k) :
            \E tys \in [1..k -> Types] : \E flat \in [1..Sum(s, k) -> Attrs] :
                ast = NamedStruct(tys, s, flat)
       \/ \E k \in 0..MaxFields : \E tys \in [1..k -> Types] : ast = TupleStruct(tys)
       \/ ast = UnitStruct
       \/ \E k \in 0..MaxVariants : \E s \in Shapes(k) :
            \E flat \in [1..Sum(s, k) -> Attrs] : ast = Enum(k, s, flat)
    /\ pc = "derive"
    /\ gen = NoGen
    /\ value = NoValue

\* the derive entry point: the declaration is expanded or the macro panics
specify_defaults ==
    /\ pc = "derive"
    /\ gen' = impl_specified_defaults(ast)
    /\ pc' = IF gen'.kind = "panic" THEN "aborted" ELSE "expanded"
    /\ UNCHANGED <<ast, value>>

\* a call of the emitted `<Name as Default>::default()`
Default_default ==
    /\ pc = "expanded"
    /\ value' = RunDefault(gen, ast)
    /\ pc' = IF value'.kind = "panic" THEN "panicked" ELSE "returned"
    /\ UNCHANGED <<ast, gen>>

Next == specify_defaults \/ Default_default

Spec == Init /\ [][Next]_vars

(* ----------------------------- properties ------------------------------- *)

Expanded == pc # "derive"

IsStruct == ast.body.tag = "Struct"

IsEnum == ast.body.tag = "Enum"

fields == ast.body.fields

variants == ast.body.variants

\* x (a field or a variant) carries an attribute named `default`
HasDefaultAttr(x) == \E j \in 1..Len(x.attrs) : x.attrs[j].name = "default"

\* the first attribute of x named `default`
FirstDefaultAttr(x) ==
    x.attrs[CHOOSE j \in 1..Len(x.attrs) :
                /\ x.attrs[j].name = "default"
                /\ \A h \in 1..(j - 1) : x.attrs[h].name # "default"]

\* a is a string-literal value assignment, `name = "<literal>"`
IsStrAssignment(a) == a.tag = "NameValue" /\ a.lit.tag = "Str"

\* the override literal of field f
OverrideOf(f) == FirstDefaultAttr(f).lit.value

MalformedMsgs == {MsgNamedValue, MsgStringLiteral}

\* C1: when a record with named fields is expanded, the constructor has one
\* entry per declared field, in source order, and the entry of a field is
\* decided by that field's annotations alone: the parse of its own literal if
\* it carries a `default = "<literal>"`, its element type's default if it
\* carries no `default`; the constructed value has these values.
C1_EntryPerFieldFromOwnAnnotations ==
    (Expanded /\ IsStruct /\ gen.kind = "tokens") =>
        /\ gen.item = "struct" /\ gen.name = ast.ident
        /\ Len(gen.fields) = Len(fields)
        /\ \A i \in 1..Len(fields) :
            /\ gen.fields[i].ident = fields[i].ident
            /\ IF HasDefaultAttr(fields[i])
               THEN gen.fields[i].kind = "parse" /\ gen.fields[i].lit = OverrideOf(fields[i])
               ELSE gen.fields[i].kind = "default"
        /\ (pc = "returned" =>
              /\ Len(value.fields) = Len(fields)
              /\ \A i \in 1..Len(fields) :
                  /\ value.fields[i].ident = fields[i].ident
                  /\ value.fields[i].val =
                        IF HasDefaultAttr(fields[i])
                        THEN Parse(fields[i].ty, OverrideOf(fields[i]))
                        ELSE TypeDefault(fields[i].ty))

\* C1 witness: a constructed record in which one field is overridden with
\* "640" and another field, carrying no `default`, holds its type's default
C1_Witness ==
    /\ pc = "returned" /\ IsStruct
    /\ \E i, j \in 1..Len(fields) :
        /\ i # j
        /\ HasDefaultAttr(fields[i]) /\ fields[i].ty = "u32" /\ value.fields[i].val.n = 640
        /\ ~HasDefaultAttr(fields[j]) /\ value.fields[j].val = TypeDefault(fields[j].ty)

\* `#[default]`, the bare marker
IsWordMarker(a) == a.name = "default" /\ a.tag = "Word"

WordMarked == {i \in 1..Len(variants) : \E j \in 1..Len(variants[i].attrs) : IsWordMarker(variants[i].attrs[j])}

\* C2: an enum in which two or more variants carry the default marker is
\* rejected by the macro and no implementation is emitted.
C2_TwoMarkedVariantsRejected ==
    (Expanded /\ IsEnum /\ Cardinality(WordMarked) >= 2) => gen.kind = "panic"

\* C3: an enum in which no variant carries the default marker (an enum without
\* variants included) is rejected with the missing-variant diagnostic and no
\* implementation is emitted.
C3_NoMarkedVariantRejected ==
    (Expanded /\ IsEnum /\ \A i \in 1..Len(variants) : ~HasDefaultAttr(variants[i])) =>
        /\ gen = Panic(MsgNoVariant)
        /\ pc = "aborted"
        /\ value = NoValue

\* C3 witness: an enum of several variants, attributes present, none marked
C3_Witness ==
    /\ pc = "aborted" /\ IsEnum /\ Len(variants) >= 2
    /\ \E i \in 1..Len(variants) : Len(variants[i].attrs) > 0
    /\ \A i \in 1..Len(variants) : ~HasDefaultAttr(variants[i])

\* C4: a record in which some field carries a `default` annotation that is not
\* a string-literal value assignment is rejected as malformed, whatever the
\* other annotations and fields are.
C4_MalformedAnnotationRejected ==
    (/\ Expanded /\ IsStruct
     /\ \E i \in 1..Len(fields) : \E j \in 1..Len(fields[i].attrs) :
            fields[i].attrs[j].name = "default" /\ ~IsStrAssignment(fields[i].attrs[j]))
    => (gen.kind = "panic" /\ gen.msg \in MalformedMsgs)

\* C5 as stated: every declaration with positional fields or without fields,
\* a record declared with zero named fields included, is rejected as an
\* unsupported shape.
C5_FieldlessRejected ==
    (/\ Expanded
     /\ \/ ast.body.tag \in {"Tuple", "Unit"}
        \/ (IsStruct /\ Len(fields) = 0))
    => gen = Panic(MsgOtherStruct)

\* C5 amended: a declaration with positional fields or of unit form is
\* rejected as an unsupported shape, expansion succeeds only for a record
\* with named fields or an enum, and a record declared with an empty list of
\* named fields is given an empty constructor.
C5_OnlyTupleAndUnitRejected ==
    Expanded =>
        /\ ast.body.tag \in {"Tuple", "Unit"} => (gen = Panic(MsgOtherStruct) /\ pc = "aborted")
        /\ gen.kind = "tokens" => (IsStruct \/ IsEnum)
        /\ gen.msg = MsgOtherStruct => ast.body.tag \in {"Tuple", "Unit"}
        /\ (IsStruct /\ Len(fields) = 0) => gen = Tokens("struct", ast.ident, <<>>, NoIdent)

\* C5 witness: a declaration with positional fields was rejected
C5_Witness ==
    /\ pc = "aborted" /\ ast.body.tag = "Tuple" /\ Len(fields) >= 1
    /\ gen.msg = MsgOtherStruct

\* the fields whose override literal does not convert into the element type
Unconvertible ==
    {i \in 1..Len(fields) :
        HasDefaultAttr(fields[i]) /\ ~Parse(fields[i].ty, OverrideOf(fields[i])).ok}

Ran == pc \in {"returned", "panicked"}

Marked == {i \in 1..Len(variants) : HasDefaultAttr(variants[i])}

\* C7: for an enum with exactly one marked variant, at any position, the
\* emitted construction returns that variant of the declared type.
C7_MarkedVariantReturned ==
    (Expanded /\ IsEnum /\ Cardinality(Marked) = 1) =>
        LET m == CHOOSE i \in Marked : TRUE IN
        /\ gen = Tokens("enum", ast.ident, <<>>, variants[m].ident)
        /\ pc \in {"expanded", "returned"}
        /\ pc = "returned" => value = EnumValue(variants[m].ident)

\* C7 witness: the only marked variant is not the first one and was returned
C7_Witness ==
    /\ pc = "returned" /\ IsEnum
    /\ Cardinality(Marked) = 1 /\ 1 \notin Marked
    /\ \E m \in Marked : value.variant = variants[m].ident

\* C9: a record whose every `default` annotation is a string-literal value
\* assignment is expanded whatever the literals' texts are, and the emitted
\* expression of an overridden field carries the literal's text unchanged.
C9_LiteralContentNotValidated ==
    (/\ Expanded /\ IsStruct
     /\ \A i \in 1..Len(fields) : \A j \in 1..Len(fields[i].attrs) :
            fields[i].attrs[j].name = "default" => IsStrAssignment(fields[i].attrs[j]))
    => /\ gen.kind = "tokens"
       /\ pc # "aborted"
       /\ \A i \in 1..Len(fields) :
            HasDefaultAttr(fields[i]) =>
                (gen.fields[i].kind = "parse" /\ gen.fields[i].lit = OverrideOf(fields[i]))

\* C9 witness: a u32 field overridden with "abc" and one overridden with the
\* empty text were expanded
C9_Witness ==
    /\ pc = "expanded" /\ IsStruct /\ Len(fields) = 2
    /\ fields[1].ty = "u32" /\ HasDefaultAttr(fields[1]) /\ gen.fields[1].lit = "abc"
    /\ fields[2].ty = "u32" /\ HasDefaultAttr(fields[2]) /\ gen.fields[2].lit = ""

\* C10: a variant counts as marked exactly when it carries an attribute named
\* `default`, of any form: an enum is expanded iff some variant carries one,
\* the chosen variant carries one, and the annotation-form diagnostics of
\* record fields are never raised for an enum.
C10_AnyFormMarksVariant ==
    (Expanded /\ IsEnum) =>
        /\ gen.kind = "tokens" <=> Marked # {}
        /\ gen.kind = "tokens" => \E m \in Marked : gen.variant = variants[m].ident
        /\ gen.msg \notin MalformedMsgs

\* C10 witness: an enum expanded although no variant carries the bare marker
C10_Witness ==
    /\ pc = "expanded" /\ IsEnum
    /\ WordMarked = {} /\ Marked # {}
    /\ \E m \in Marked : gen.variant = variants[m].ident

====
